---- MODULE Spec2Model ----
(***************************************************************************)
(* Model of the task orchestration of KClusterInterface:                   *)
(*   job/main.py     run, process_kc_task, process_kc_api, notifiers       *)
(*   kc_app/views.py reprocess_task, mark_failed, process_file             *)
(*   kc_app/models.py TaskSubmission                                       *)
(* One Cloud Run execution of run() per trigger; the execution may be      *)
(* terminated between any two steps.  The Task Store is the TaskSubmission *)
(* table, the object store is GCS, the batch job client is Vertex AI.      *)
(***************************************************************************)
EXTENDS Integers, Sequences, FiniteSets, TLC

(* ---------------------------------------------------------------- bounds *)

\* number of run() executions triggered for one task
MaxRuns == 3

\* number of records in an input file
MaxLen == 2

\* external job handles that can exist for one task: the one the table of
\* run() names, plus one per execution that may submit
NumHandles == MaxRuns + 1

(* ------------------------------------------------------------- constants *)

\* task ids: the two ids run() has a job id for, and one it has none for
TaskIds == {27, 28, 29}

\* TaskSubmission.STATUS_CHOICES
STATUS_CHOICES == {"uploaded", "converted", "queued", "processing", "completed", "failed"}

Terminal == {"completed", "failed"}

\* Vertex AI job states; "none" is a job that does not exist
JobStates == {"none", "pending", "running", "succeeded", "failed"}

JobTerminal == {"succeeded", "failed"}

Handles == TaskIds \X (1 .. NumHandles)

NoJob == <<0, 0>>

\* blank=True CharField / null DateTimeField
NoBlob == <<>>

NoError == ""

NullTime == 0

\* the literal table of run(): task id -> Vertex AI job id.  The numeric job
\* ids are opaque; handle 1 of a task stands for the job the literal names.
HasJobId(t) == t \in {27, 28}

JobIdOf(t) == <<t, 1>>

\* blob keys written by the orchestrator and by upload_file
InputKey(t) == <<"uploads", t>>

JsonKey(t) == <<"processed", t>>

ConceptKey(t) == <<"concepts", t>>

KcKey(t) == <<"kclusters", t>>

\* a save_jsonl_file that names its file without the task id
JsonlPathShared(t) == <<"/tmp/questions", 0>>

\* save_jsonl_file: /tmp/questions_{task_id}.jsonl
JsonlPath(t) == <<"/tmp/questions", t>>

\* save_results_to_csv: /tmp/kc_results_{task_id}.csv, for either table
CsvPath(t) == <<"/tmp/kc_results", t>>

(* ----------------------------------------------------------------- state *)

VARIABLES
  db,       \* TaskSubmission rows: task id -> persisted record
  gcs,      \* object store: set of blob keys that hold an object
  jobs,     \* Vertex AI: handle -> job state
  input,    \* task id -> "valid" | "invalid": what the Converter says of the uploaded file
  pc,       \* task id -> position of the execution of run() for that task ("idle": none)
  mem,      \* task id -> the in-memory `task` instance of the running function
  loc,      \* task id -> locals of run(): jsonl_data, resume, job, e
  inv,      \* task id -> the current (or last) execution: status and gcs_json_blob read
            \* at entry, the job state the lookup found, the outcome of its last
            \* send_mail, how the execution ended, and what started it (via):
            \* process_file after the upload, or reprocess_task, of a failed
            \* task or of another one
  log,      \* task id -> effects of the current (or last) execution, in order
  runs,     \* task id -> number of executions triggered so far
  submits,  \* task id -> number of launch_batch_job calls so far
  hist,     \* task id -> over all executions: the handles launch_batch_job returned,
            \* the handle of the last task.save() after a launch, the calls of
            \* send_completion_email
  conv,     \* one call of convert_file_to_jsonl_data and save_jsonl_file: the file,
            \* what the converter returned or raised, the lines written
  res       \* one result collection: the two tables, the local CSV file, the blobs

vars == <<db, gcs, jobs, input, pc, mem, loc, inv, log, runs, submits, hist, conv, res>>

Tasks == DOMAIN db

\* the columns of TaskSubmission the orchestrator touches; job_handle is not a
\* column (the field is commented out of the model class)
DbFields ==
  {"status", "gcs_input_blob", "gcs_json_blob", "gcs_output_concept_blob",
   "gcs_output_kc_blob", "error_message", "completed_at"}

\* a row as upload_file leaves it: status default 'uploaded', gcs_input_blob set
NewTask(t) ==
  [status |-> "uploaded", gcs_input_blob |-> InputKey(t), gcs_json_blob |-> NoBlob,
   gcs_output_concept_blob |-> NoBlob, gcs_output_kc_blob |-> NoBlob,
   error_message |-> NoError, completed_at |-> NullTime]

\* TaskSubmission.objects.get(id=task_id): an instance holding the row's columns;
\* job_handle is a plain attribute of the instance, absent until assigned
Instance(row) ==
  [f \in DbFields \cup {"job_handle"} |-> IF f = "job_handle" THEN NoJob ELSE row[f]]

\* task.save(): every column of the row is written from the instance
Row(task) == [f \in DbFields |-> task[f]]

\* the job handle a reader of the Task Store finds in a row: the value of a
\* job_handle column if the row has one, none otherwise
JobHandleOf(row) == IF "job_handle" \in DOMAIN row THEN row.job_handle ELSE NoJob

NoLocals == [jsonl_data |-> "unset", resume |-> FALSE, job |-> NoJob, e |-> NoError]

\* no request for a download was answered yet
NoDownload == [result_type |-> "none", response |-> "none", key |-> NoBlob]

NoHist == [launched |-> {}, saved |-> NoJob, completion_mails |-> 0, download |-> NoDownload]

NoInv ==
  [via |-> "process_file", entry |-> "none", json_blob |-> NoBlob, found |-> "unset",
   mail |-> "none", end |-> "none"]

\* the job the table names may exist before the task is ever run (the literal
\* does not depend on the database); every other handle is free
InitJobs(T) ==
  {[h \in Handles |-> IF h[1] \in T /\ HasJobId(h[1]) /\ h = JobIdOf(h[1]) THEN s ELSE "none"] :
     s \in JobStates}

InitFor(T) ==
  /\ db = [t \in T |-> NewTask(t)]
  /\ gcs = {InputKey(t) : t \in T}
  /\ jobs \in InitJobs(T)
  /\ input \in [T -> {"valid", "invalid"}]
  /\ pc = [t \in T |-> "idle"]
  /\ mem = [t \in T |-> Instance(NewTask(t))]
  /\ loc = [t \in T |-> NoLocals]
  /\ inv = [t \in T |-> NoInv]
  /\ log = [t \in T |-> <<>>]
  /\ runs = [t \in T |-> 0]
  /\ submits = [t \in T |-> 0]
  /\ hist = [t \in T |-> NoHist]

\* no file is being converted
NoConv == [at |-> "none"]

\* no results are being saved
NoRes == [at |-> "none"]

Init == (\E t \in TaskIds : InitFor({t})) /\ conv = NoConv /\ res = NoRes

(* --------------------------------------------------------------- helpers *)

Goto(t, p) == pc' = [pc EXCEPT ![t] = p]

Did(t, events) == log' = [log EXCEPT ![t] = @ \o events]

\* task.save() of the instance m
Save(t, m) == /\ mem' = [mem EXCEPT ![t] = m]
              /\ db' = [db EXCEPT ![t] = Row(m)]

\* the execution ends: by return, by an exception leaving run(), or killed
End(t, how) == /\ pc' = [pc EXCEPT ![t] = "idle"]
               /\ loc' = [loc EXCEPT ![t] = NoLocals]
               /\ inv' = [inv EXCEPT ![t].end = how]

\* the handle Vertex AI gives the next job launched for task t
FreshHandle(t) ==
  <<t, CHOOSE k \in 1 .. NumHandles :
         /\ jobs[<<t, k>>] = "none"
         /\ \A i \in 1 .. (k - 1) : jobs[<<t, i>>] # "none">>

\* a notifier was called, send_mail had outcome m, and the execution goes on at
\* p ("idle": it ends, in the way `how`)
AfterMail(t, m, p, how) ==
  /\ pc' = [pc EXCEPT ![t] = p]
  /\ inv' = [inv EXCEPT ![t].mail = m, ![t].end = IF p = "idle" THEN how ELSE @]

\* the local files the current (or last) execution for task t has written:
\* save_jsonl_file is called in the step that sets gcs_json_blob,
\* save_results_to_csv in each of the two result steps
FilesWritten(t) ==
  (IF \E i \in DOMAIN log[t] : log[t][i] = "write:gcs_json_blob" THEN {JsonlPath(t)} ELSE {})
  \cup
  (IF \E i \in DOMAIN log[t] : log[t][i] \in {"upload:concepts", "upload:kclusters"}
   THEN {CsvPath(t)} ELSE {})

(* ------------------------------------------------------------------ run() *)

\* process_file: the Cloud Run job is executed with TASK_ID = t
Trigger(t) ==
  /\ pc[t] = "idle"
  /\ runs[t] < MaxRuns
  /\ runs' = [runs EXCEPT ![t] = @ + 1]
  /\ pc' = [pc EXCEPT ![t] = "start"]
  /\ inv' = [inv EXCEPT ![t] = NoInv]
  /\ log' = [log EXCEPT ![t] = <<>>]
  /\ loc' = [loc EXCEPT ![t] = NoLocals]
  /\ UNCHANGED <<db, gcs, jobs, input, mem, submits>>
  /\ UNCHANGED <<hist, conv, res>>

\* a run() that retries failed tasks instead of skipping them
BranchRetryFailed(status) ==
  IF status = "completed" THEN "skip"
  ELSE IF status = "processing" THEN "resume"
  ELSE "fresh"

\* the if/elif chain of run() on the status it loaded
Branch(status) ==
  IF status = "completed" THEN "skip"
  ELSE IF status = "failed" THEN "skip"
  ELSE IF status = "processing" THEN "resume"
  ELSE "fresh"

\* run(), lines 225-244: load the task, branch on its status; in the resume
\* branch pick the job id from the table or raise KeyError (nothing catches it)
RunEnter(t) ==
  /\ pc[t] = "start"
  /\ LET task == Instance(db[t])
         b == Branch(task.status)
     IN /\ mem' = [mem EXCEPT ![t] = task]
        /\ CASE b = "skip" ->
                  /\ pc' = [pc EXCEPT ![t] = "idle"]
                  /\ loc' = [loc EXCEPT ![t] = NoLocals]
                  /\ inv' = [inv EXCEPT ![t] = [via |-> inv[t].via, entry |-> task.status,
                                               json_blob |-> task.gcs_json_blob,
                                               found |-> "unset", mail |-> "none", end |-> "returned"]]
             [] b = "resume" /\ ~HasJobId(t) ->
                  /\ pc' = [pc EXCEPT ![t] = "idle"]
                  /\ loc' = [loc EXCEPT ![t] = NoLocals]
                  /\ inv' = [inv EXCEPT ![t] = [via |-> inv[t].via, entry |-> task.status,
                                               json_blob |-> task.gcs_json_blob,
                                               found |-> "unset", mail |-> "none", end |-> "raised"]]
             [] b = "resume" /\ HasJobId(t) ->
                  /\ Goto(t, "lookup")
                  /\ loc' = [loc EXCEPT ![t].job = JobIdOf(t)]
                  /\ inv' = [inv EXCEPT ![t].entry = task.status, ![t].json_blob = task.gcs_json_blob]
             [] OTHER ->
                  /\ Goto(t, "prep")
                  /\ loc' = [loc EXCEPT ![t].resume = FALSE]
                  /\ inv' = [inv EXCEPT ![t].entry = task.status, ![t].json_blob = task.gcs_json_blob]
  /\ UNCHANGED <<db, gcs, jobs, input, log, runs, submits>>
  /\ UNCHANGED <<hist, conv, res>>

\* a resume branch that starts from scratch when the lookup finds no job
OnNoJobFresh == "fresh"

\* run(), line 246-250: what the resume branch does when the lookup finds no job
OnNoJob == "return"

\* a resume branch that calls process_kc_api as the fresh branch does
ResumeArgFalse == FALSE

\* the resume argument run() passes to process_kc_api in the resume branch
ResumeArg == TRUE

\* run(), lines 245-261: get_existing_batch_job(job_id); no job: return;
\* a job in any state: process_kc_task, then process_kc_api(resume=True, job)
Lookup(t) ==
  /\ pc[t] = "lookup"
  /\ LET state == jobs[loc[t].job]
     IN /\ inv' = [inv EXCEPT ![t].found = state,
                              ![t].end = IF state = "none" /\ OnNoJob = "return" THEN "returned" ELSE @]
        /\ IF state = "none"
           THEN IF OnNoJob = "return"
                THEN /\ pc' = [pc EXCEPT ![t] = "idle"]
                     /\ loc' = [loc EXCEPT ![t] = NoLocals]
                ELSE /\ Goto(t, "prep")
                     /\ loc' = [loc EXCEPT ![t].resume = FALSE, ![t].job = NoJob]
           ELSE /\ Goto(t, "prep")
                /\ loc' = [loc EXCEPT ![t].resume = ResumeArg]
  /\ Did(t, <<"lookup">>)
  /\ UNCHANGED <<db, gcs, jobs, input, mem, runs, submits>>
  /\ UNCHANGED <<hist, conv, res>>

(* -------------------------------------------------------- process_kc_task *)

\* an exception inside the try block of process_kc_task or process_kc_api
Raise(t, handler, e) ==
  /\ Goto(t, handler)
  /\ loc' = [loc EXCEPT ![t].e = e]

\* send_mail(..., fail_silently=False) delivers the message or raises
MailOutcomes == {"sent", "smtp error"}

\* a notifier without its try/except: a failing send_mail propagates
NotifierRaises == FALSE

\* send_completion_email, send_failure_email: the whole body is inside
\* try/except Exception, which logs and returns
NotifierCatches == TRUE

\* lines 48-60: load the task, download the input, convert, persist 'converted'
PrepConvert(t) ==
  /\ pc[t] = "prep"
  /\ LET task == Instance(db[t])
     IN \/ /\ Raise(t, "prep_except", "download failed")
           /\ Did(t, <<"download">>)
           /\ mem' = [mem EXCEPT ![t] = task]
           /\ UNCHANGED db
        \/ /\ task.gcs_input_blob \in gcs
           /\ input[t] = "invalid"
           /\ Raise(t, "prep_except", "validation error")
           /\ Did(t, <<"download", "convert">>)
           /\ mem' = [mem EXCEPT ![t] = task]
           /\ UNCHANGED db
        \/ /\ task.gcs_input_blob \in gcs
           /\ input[t] = "valid"
           /\ Save(t, [task EXCEPT !.status = "converted"])
           /\ Goto(t, "prep_blob")
           /\ loc' = [loc EXCEPT ![t].jsonl_data = "data"]
           /\ Did(t, <<"download", "convert", "write:converted">>)
  /\ UNCHANGED <<gcs, jobs, input, inv, runs, submits>>
  /\ UNCHANGED <<hist, conv, res>>

\* a preparation that names the normalized blob after the execution
PrepSaveBlobPerRun(t) ==
  /\ pc[t] = "prep_blob"
  /\ Save(t, [mem[t] EXCEPT !.gcs_json_blob = <<"processed", t, runs[t]>>])
  /\ Goto(t, "prep_upload")
  /\ Did(t, <<"write:gcs_json_blob">>)
  /\ UNCHANGED <<gcs, jobs, input, loc, inv, runs, submits>>
  /\ UNCHANGED <<hist, conv, res>>

\* lines 66-68: write the local JSONL file, set gcs_json_blob, persist
PrepSaveBlob(t) ==
  /\ pc[t] = "prep_blob"
  /\ Save(t, [mem[t] EXCEPT !.gcs_json_blob = JsonKey(t)])
  /\ Goto(t, "prep_upload")
  /\ Did(t, <<"write:gcs_json_blob">>)
  /\ UNCHANGED <<gcs, jobs, input, loc, inv, runs, submits>>
  /\ UNCHANGED <<hist, conv, res>>

\* an upload whose failure is ignored: the preparation goes on to 'queued'
PrepUploadUnchecked(t) ==
  /\ pc[t] = "prep_upload"
  /\ \/ gcs' = gcs \cup {mem[t].gcs_json_blob}
     \/ UNCHANGED gcs
  /\ Goto(t, "prep_queued")
  /\ Did(t, <<"upload:processed">>)
  /\ UNCHANGED <<db, jobs, input, mem, loc, inv, runs, submits>>
  /\ UNCHANGED <<hist, conv, res>>

\* line 69: upload_to_gcs(jsonl_path, task.gcs_json_blob)
PrepUpload(t) ==
  /\ pc[t] = "prep_upload"
  /\ \/ /\ gcs' = gcs \cup {mem[t].gcs_json_blob}
        /\ Goto(t, "prep_queued")
        /\ UNCHANGED loc
     \/ /\ Raise(t, "prep_except", "upload failed")
        /\ UNCHANGED gcs
  /\ Did(t, <<"upload:processed">>)
  /\ UNCHANGED <<db, jobs, input, mem, inv, runs, submits>>
  /\ UNCHANGED <<hist, conv, res>>

\* lines 70-75: persist 'queued', return jsonl_data
PrepQueued(t) ==
  /\ pc[t] = "prep_queued"
  /\ Save(t, [mem[t] EXCEPT !.status = "queued"])
  /\ Goto(t, "api")
  /\ Did(t, <<"write:queued">>)
  /\ UNCHANGED <<gcs, jobs, input, loc, inv, runs, submits>>
  /\ UNCHANGED <<hist, conv, res>>

\* lines 78-84: the handler reloads the task and persists 'failed' with str(e)
PrepExcept(t) ==
  /\ pc[t] = "prep_except"
  /\ Save(t, [Instance(db[t]) EXCEPT !.status = "failed", !.error_message = loc[t].e])
  /\ Goto(t, "prep_notify")
  /\ Did(t, <<"write:failed">>)
  /\ UNCHANGED <<gcs, jobs, input, loc, inv, runs, submits>>
  /\ UNCHANGED <<hist, conv, res>>

\* run(), lines 264-267: the fresh branch stops when process_kc_task returned None;
\* lines 256-261: the resume branch passes whatever it returned to process_kc_api
AfterPrepFailed(resume) == IF resume THEN "api" ELSE "return"

\* line 86: send_failure_email inside the handler, then the implicit return None
PrepNotify(t) ==
  /\ pc[t] = "prep_notify"
  /\ Did(t, <<"notify:failed">>)
  /\ \E m \in MailOutcomes :
       IF m # "sent" /\ ~NotifierCatches
       THEN /\ AfterMail(t, m, "idle", "raised")
            /\ loc' = [loc EXCEPT ![t] = NoLocals]
       ELSE IF AfterPrepFailed(loc[t].resume) = "return"
            THEN /\ AfterMail(t, m, "idle", "returned")
                 /\ loc' = [loc EXCEPT ![t] = NoLocals]
            ELSE /\ AfterMail(t, m, "api", "none")
                 /\ loc' = [loc EXCEPT ![t].jsonl_data = "None", ![t].e = NoError]
  /\ UNCHANGED <<db, gcs, jobs, input, mem, runs, submits>>
  /\ UNCHANGED <<hist, conv, res>>

(* --------------------------------------------------------- process_kc_api *)

\* lines 93-107 and 122-125: load the task; fresh: persist 'processing';
\* resumed: build the questions from jsonl_data (None is not iterable)
ApiStart(t) ==
  /\ pc[t] = "api"
  /\ LET task == Instance(db[t])
     IN IF ~loc[t].resume
        THEN /\ Save(t, [task EXCEPT !.status = "processing"])
             /\ Goto(t, "launch")
             /\ Did(t, <<"write:processing">>)
             /\ UNCHANGED loc
        ELSE /\ mem' = [mem EXCEPT ![t] = task]
             /\ UNCHANGED <<db, log>>
             /\ IF loc[t].jsonl_data = "None"
                THEN Raise(t, "api_except", "NoneType is not iterable")
                ELSE Goto(t, "wait") /\ UNCHANGED loc
  /\ UNCHANGED <<gcs, jobs, input, inv, runs, submits>>
  /\ UNCHANGED <<hist, conv, res>>

\* lines 110-117: launch_batch_job(questions, job_id=task_id, ...); the handle is
\* kept in the local job and as an attribute of the instance
ApiLaunch(t) ==
  /\ pc[t] = "launch"
  /\ \/ /\ LET h == FreshHandle(t)
           IN /\ jobs' = [jobs EXCEPT ![h] = "pending"]
              /\ loc' = [loc EXCEPT ![t].job = h]
              /\ mem' = [mem EXCEPT ![t].job_handle = h]
              /\ hist' = [hist EXCEPT ![t].launched = @ \cup {h}]
        /\ submits' = [submits EXCEPT ![t] = @ + 1]
        /\ Goto(t, "save_handle")
     \/ /\ Raise(t, "api_except", "launch failed")
        /\ UNCHANGED <<jobs, mem, submits, hist>>
  /\ Did(t, <<"submit">>)
  /\ UNCHANGED <<db, gcs, input, inv, runs, conv, res>>

\* line 119: task.save() after the launch
ApiSaveHandle(t) ==
  /\ pc[t] = "save_handle"
  /\ Save(t, mem[t])
  /\ Goto(t, "wait")
  /\ Did(t, <<"write:job_handle">>)
  /\ hist' = [hist EXCEPT ![t].saved = mem[t].job_handle]
  /\ UNCHANGED <<gcs, jobs, input, loc, inv, runs, submits, conv, res>>

\* wait_for_job_completion: returns once the job has succeeded, raises with the
\* external reason once it has failed
WaitOutcome(state) ==
  CASE state = "succeeded" -> "return"
    [] state = "failed" -> "raise"
    [] OTHER -> "block"

\* line 128: blocked in the poll loop until the job is terminal
ApiWait(t) ==
  /\ pc[t] = "wait"
  /\ LET o == WaitOutcome(jobs[loc[t].job])
     IN /\ o # "block"
        /\ IF o = "return"
           THEN Goto(t, "cluster") /\ UNCHANGED loc
           ELSE Raise(t, "api_except", "job failed")
  /\ Did(t, <<"wait">>)
  /\ UNCHANGED <<db, gcs, jobs, input, mem, inv, runs, submits>>
  /\ UNCHANGED <<hist, conv, res>>

\* lines 131-136: KCluster(questions, task_id).create_new_kc(); the result
\* pointers are set on the instance (not yet saved)
ApiCluster(t) ==
  /\ pc[t] = "cluster"
  /\ \/ /\ mem' = [mem EXCEPT ![t].gcs_output_concept_blob = ConceptKey(t),
                              ![t].gcs_output_kc_blob = KcKey(t)]
        /\ Goto(t, "upload_concept")
        /\ UNCHANGED loc
     \/ /\ Raise(t, "api_except", "clustering failed")
        /\ UNCHANGED mem
  /\ Did(t, <<"cluster">>)
  /\ UNCHANGED <<db, gcs, jobs, input, inv, runs, submits>>
  /\ UNCHANGED <<hist, conv, res>>

\* lines 140-141: save the concept table, upload it
ApiUploadConcept(t) ==
  /\ pc[t] = "upload_concept"
  /\ \/ /\ gcs' = gcs \cup {mem[t].gcs_output_concept_blob}
        /\ Goto(t, "upload_kc")
        /\ UNCHANGED loc
     \/ /\ Raise(t, "api_except", "upload failed")
        /\ UNCHANGED gcs
  /\ Did(t, <<"upload:concepts">>)
  /\ UNCHANGED <<db, jobs, input, mem, inv, runs, submits>>
  /\ UNCHANGED <<hist, conv, res>>

\* an upload whose failure is ignored: the execution goes on to 'completed'
ApiUploadKcUnchecked(t) ==
  /\ pc[t] = "upload_kc"
  /\ \/ gcs' = gcs \cup {mem[t].gcs_output_kc_blob}
     \/ UNCHANGED gcs
  /\ Goto(t, "complete")
  /\ Did(t, <<"upload:kclusters">>)
  /\ UNCHANGED <<db, jobs, input, mem, loc, inv, runs, submits>>
  /\ UNCHANGED <<hist, conv, res>>

\* lines 142-143: save the cluster table, upload it
ApiUploadKc(t) ==
  /\ pc[t] = "upload_kc"
  /\ \/ /\ gcs' = gcs \cup {mem[t].gcs_output_kc_blob}
        /\ Goto(t, "complete")
        /\ UNCHANGED loc
     \/ /\ Raise(t, "api_except", "upload failed")
        /\ UNCHANGED gcs
  /\ Did(t, <<"upload:kclusters">>)
  /\ UNCHANGED <<db, jobs, input, mem, inv, runs, submits>>
  /\ UNCHANGED <<hist, conv, res>>

\* lines 145-148: persist 'completed' and completed_at (the time of this execution)
ApiComplete(t) ==
  /\ pc[t] = "complete"
  /\ Save(t, [mem[t] EXCEPT !.status = "completed", !.completed_at = runs[t]])
  /\ Goto(t, "notify")
  /\ Did(t, <<"write:completed">>)
  /\ UNCHANGED <<gcs, jobs, input, loc, inv, runs, submits>>
  /\ UNCHANGED <<hist, conv, res>>

\* lines 150-152: send_completion_email inside the try block, then both functions return
ApiNotify(t) ==
  /\ pc[t] = "notify"
  /\ Did(t, <<"notify:completed">>)
  /\ hist' = [hist EXCEPT ![t].completion_mails = @ + 1]
  /\ \E m \in MailOutcomes :
       IF m # "sent" /\ ~NotifierCatches
       THEN /\ AfterMail(t, m, "api_except", "none")
            /\ loc' = [loc EXCEPT ![t].e = m]
       ELSE /\ AfterMail(t, m, "idle", "returned")
            /\ loc' = [loc EXCEPT ![t] = NoLocals]
  /\ UNCHANGED <<db, gcs, jobs, input, mem, runs, submits, conv, res>>

\* lines 154-160: the handler reloads the task and persists 'failed' with str(e)
ApiExcept(t) ==
  /\ pc[t] = "api_except"
  /\ Save(t, [Instance(db[t]) EXCEPT !.status = "failed", !.error_message = loc[t].e])
  /\ Goto(t, "api_notify")
  /\ Did(t, <<"write:failed">>)
  /\ UNCHANGED <<gcs, jobs, input, loc, inv, runs, submits>>
  /\ UNCHANGED <<hist, conv, res>>

\* line 161: send_failure_email, then both functions return
ApiFailNotify(t) ==
  /\ pc[t] = "api_notify"
  /\ Did(t, <<"notify:failed">>)
  /\ \E m \in MailOutcomes :
       /\ AfterMail(t, m, "idle", IF m # "sent" /\ ~NotifierCatches THEN "raised" ELSE "returned")
       /\ loc' = [loc EXCEPT ![t] = NoLocals]
  /\ UNCHANGED <<db, gcs, jobs, input, mem, runs, submits>>
  /\ UNCHANGED <<hist, conv, res>>

(* ------------------------------------------------------------ environment *)

\* the Cloud Run execution is terminated between two steps
Kill(t) ==
  /\ pc[t] # "idle"
  /\ End(t, "killed")
  /\ UNCHANGED <<db, gcs, jobs, input, mem, log, runs, submits>>
  /\ UNCHANGED <<hist, conv, res>>

\* Vertex AI advances a job
JobStep(h) ==
  /\ \/ jobs[h] = "pending" /\ jobs' = [jobs EXCEPT ![h] = "running"]
     \/ jobs[h] = "running" /\ jobs' = [jobs EXCEPT ![h] = "succeeded"]
     \/ jobs[h] = "running" /\ jobs' = [jobs EXCEPT ![h] = "failed"]
  /\ UNCHANGED <<db, gcs, input, pc, mem, loc, inv, log, runs, submits>>
  /\ UNCHANGED <<hist, conv, res>>

(* -------------------------------------------------------- operator views *)

\* a mark_failed that also cancels the task's batch jobs
mark_failed_cancelling(t) ==
  /\ db' = [db EXCEPT ![t].status = "failed"]
  /\ jobs' = [h \in Handles |->
                IF h[1] = t /\ jobs[h] \in {"pending", "running"} THEN "failed" ELSE jobs[h]]
  /\ UNCHANGED <<gcs, input, pc, mem, loc, inv, log, runs, submits>>
  /\ UNCHANGED <<hist, conv, res>>

\* views.mark_failed: the status is forced to 'failed'; nothing else is touched
mark_failed(t) ==
  /\ db' = [db EXCEPT ![t].status = "failed"]
  /\ UNCHANGED <<gcs, jobs, input, pc, mem, loc, inv, log, runs, submits>>
  /\ UNCHANGED <<hist, conv, res>>

\* a reprocess_task that also clears the message of the earlier failure
reprocess_task_clearing(t) ==
  /\ db[t].status # "completed"
  /\ db' = [db EXCEPT ![t].status = "processing", ![t].error_message = NoError]
  /\ pc[t] = "idle"
  /\ runs[t] < MaxRuns
  /\ runs' = [runs EXCEPT ![t] = @ + 1]
  /\ pc' = [pc EXCEPT ![t] = "start"]
  /\ inv' = [inv EXCEPT ![t] = [NoInv EXCEPT !.via = IF db[t].status = "failed"
                                                    THEN "reprocess_failed"
                                                    ELSE "reprocess_task"]]
  /\ log' = [log EXCEPT ![t] = <<>>]
  /\ loc' = [loc EXCEPT ![t] = NoLocals]
  /\ UNCHANGED <<gcs, jobs, input, mem, submits>>
  /\ UNCHANGED <<hist, conv, res>>

\* views.reprocess_task: unless completed, the status is set to 'processing' and
\* process_file starts a new execution (taken while no execution is running:
\* two executions for one task id at once are outside the supported contract)
reprocess_task(t) ==
  /\ db[t].status # "completed"
  /\ db' = [db EXCEPT ![t].status = "processing"]
  /\ pc[t] = "idle"
  /\ runs[t] < MaxRuns
  /\ runs' = [runs EXCEPT ![t] = @ + 1]
  /\ pc' = [pc EXCEPT ![t] = "start"]
  /\ inv' = [inv EXCEPT ![t] = [NoInv EXCEPT !.via = IF db[t].status = "failed"
                                                    THEN "reprocess_failed"
                                                    ELSE "reprocess_task"]]
  /\ log' = [log EXCEPT ![t] = <<>>]
  /\ loc' = [loc EXCEPT ![t] = NoLocals]
  /\ UNCHANGED <<gcs, jobs, input, mem, submits>>
  /\ UNCHANGED <<hist, conv, res>>

\* the result_type of the URL: 'concepts', or anything else
ResultTypes == {"concepts", "kclusters"}

\* a download_results that looks at the pointer only
download_results_unguarded(t, result_type) ==
  /\ LET task == db[t]
         key == IF result_type = "concepts" THEN task.gcs_output_concept_blob
                ELSE task.gcs_output_kc_blob
         Answer(r, k) ==
           hist' = [hist EXCEPT ![t].download =
                      [result_type |-> result_type, response |-> r, key |-> k]]
     IN IF task.gcs_output_concept_blob = NoBlob
        THEN Answer("refused", NoBlob)
        ELSE \/ Answer("error", NoBlob)
             \/ IF key \in gcs THEN Answer("link", key) ELSE Answer("not found", NoBlob)
  /\ UNCHANGED <<db, gcs, jobs, input, pc, mem, loc, inv, log, runs, submits, conv, res>>

\* views.download_results: refused unless the status is 'completed' and
\* gcs_output_concept_blob is set; the blob named by the pointer of the result
\* type is looked up; a signed URL is issued if it exists; any exception
\* (credentials, storage) ends in an error message
download_results(t, result_type) ==
  /\ LET task == db[t]
         key == IF result_type = "concepts" THEN task.gcs_output_concept_blob
                ELSE task.gcs_output_kc_blob
         Answer(r, k) ==
           hist' = [hist EXCEPT ![t].download =
                      [result_type |-> result_type, response |-> r, key |-> k]]
     IN IF task.status # "completed" \/ task.gcs_output_concept_blob = NoBlob
        THEN Answer("refused", NoBlob)
        ELSE \/ Answer("error", NoBlob)
             \/ IF key \in gcs THEN Answer("link", key) ELSE Answer("not found", NoBlob)
  /\ UNCHANGED <<db, gcs, jobs, input, pc, mem, loc, inv, log, runs, submits, conv, res>>

(* ----------------------------------------------- kc_app/views.py: upload *)

\* views.upload_file up to line 101: the form is valid and the row is saved,
\* status 'uploaded' by default, no blob pointer yet; nothing is in the object
\* store, no execution has been started
InitUpload ==
  /\ \E t \in TaskIds :
       /\ db = [u \in {t} |-> [NewTask(u) EXCEPT !.gcs_input_blob = NoBlob]]
       /\ mem = [u \in {t} |-> Instance(db[u])]
       /\ pc = [u \in {t} |-> "upload_file"]
       /\ jobs \in InitJobs({t})
       /\ input \in [{t} -> {"valid", "invalid"}]
       /\ loc = [u \in {t} |-> NoLocals]
       /\ inv = [u \in {t} |-> NoInv]
       /\ log = [u \in {t} |-> <<>>]
       /\ runs = [u \in {t} |-> 0]
       /\ submits = [u \in {t} |-> 0]
       /\ hist = [u \in {t} |-> NoHist]
  /\ gcs = {}
  /\ conv = NoConv
  /\ res = NoRes

\* an upload_file that goes on when the upload failed
UploadPutUnchecked(t) ==
  /\ pc[t] = "upload_file"
  /\ \/ gcs' = gcs \cup {InputKey(t)}
     \/ UNCHANGED gcs
  /\ Goto(t, "upload_pointer")
  /\ UNCHANGED <<db, jobs, input, mem, loc, inv, log, runs, submits>>
  /\ UNCHANGED <<hist, conv, res>>

\* views.upload_file, lines 104-106: upload_to_gcs(local_path, gcs_filename);
\* an exception leaves the view
UploadPut(t) ==
  /\ pc[t] = "upload_file"
  /\ \/ /\ gcs' = gcs \cup {InputKey(t)}
        /\ Goto(t, "upload_pointer")
        /\ UNCHANGED <<loc, inv>>
     \/ /\ End(t, "raised")
        /\ UNCHANGED gcs
  /\ UNCHANGED <<db, jobs, input, mem, log, runs, submits>>
  /\ UNCHANGED <<hist, conv, res>>

\* views.upload_file, lines 108-111: task.gcs_input_blob = gcs_filename; task.save()
UploadSavePointer(t) ==
  /\ pc[t] = "upload_pointer"
  /\ Save(t, [mem[t] EXCEPT !.gcs_input_blob = InputKey(t)])
  /\ Goto(t, "upload_trigger")
  /\ UNCHANGED <<gcs, jobs, input, loc, inv, log, runs, submits>>
  /\ UNCHANGED <<hist, conv, res>>

\* views.upload_file, line 114: process_file(task.id) starts the execution, or
\* the request to Cloud Run raises and the view ends
UploadProcessFile(t) ==
  /\ pc[t] = "upload_trigger"
  /\ \/ /\ runs' = [runs EXCEPT ![t] = @ + 1]
        /\ pc' = [pc EXCEPT ![t] = "start"]
        /\ inv' = [inv EXCEPT ![t] = NoInv]
        /\ log' = [log EXCEPT ![t] = <<>>]
        /\ loc' = [loc EXCEPT ![t] = NoLocals]
     \/ /\ End(t, "raised")
        /\ UNCHANGED <<log, runs>>
  /\ UNCHANGED <<db, gcs, jobs, input, mem, submits>>
  /\ UNCHANGED <<hist, conv, res>>

(* ------------------------------------- kc_app/tasks.py: Celery call site *)

\* the attributes of a TaskSubmission instance besides the columns of DbFields:
\* output_csv and json_file are not among the fields of the model class
ModelAttributes == DbFields \cup {"teacher", "uploaded_file", "created_at", "job_length"}

\* str(e) of what call_kc_api raises: the AssertionError of assert(False) has
\* the empty message, the FileNotFoundError names the missing file
CallKcApiErrors == {"", "Mock CSV file not found"}

\* a worker takes a process_kc_task(task_id) message from the queue
CeleryTaskDeliver(t) ==
  /\ pc[t] = "idle"
  /\ runs[t] < MaxRuns
  /\ runs' = [runs EXCEPT ![t] = @ + 1]
  /\ pc' = [pc EXCEPT ![t] = "celery_task"]
  /\ inv' = [inv EXCEPT ![t] = [NoInv EXCEPT !.via = "celery_task", !.entry = db[t].status]]
  /\ log' = [log EXCEPT ![t] = <<>>]
  /\ loc' = [loc EXCEPT ![t] = NoLocals]
  /\ UNCHANGED <<db, gcs, jobs, input, mem, submits>>
  /\ UNCHANGED <<hist, conv, res>>

\* tasks.py lines 17-19: load the task, persist 'uploaded'
CeleryTaskStart(t) ==
  /\ pc[t] = "celery_task"
  /\ Save(t, [Instance(db[t]) EXCEPT !.status = "uploaded"])
  /\ Goto(t, "celery_convert")
  /\ Did(t, <<"write:uploaded">>)
  /\ UNCHANGED <<gcs, jobs, input, loc, inv, runs, submits>>
  /\ UNCHANGED <<hist, conv, res>>

\* tasks.py lines 23-25: convert_file_to_jsonl_data(task.uploaded_file.path)
\* returns the records or raises; persist 'converted'
CeleryTaskConvert(t) ==
  /\ pc[t] = "celery_convert"
  /\ IF input[t] = "valid"
     THEN /\ Save(t, [mem[t] EXCEPT !.status = "converted"])
          /\ Goto(t, "celery_queue")
          /\ loc' = [loc EXCEPT ![t].jsonl_data = "data"]
          /\ Did(t, <<"convert", "write:converted">>)
     ELSE /\ Raise(t, "celery_task_except", "validation error")
          /\ Did(t, <<"convert">>)
          /\ UNCHANGED <<db, mem>>
  /\ UNCHANGED <<gcs, jobs, input, inv, runs, submits>>
  /\ UNCHANGED <<hist, conv, res>>

\* a preparation that sends the message before it records the JSONL file
CeleryTaskQueueEager(t) ==
  /\ pc[t] = "celery_queue"
  /\ Did(t, <<"delay:process_kc_api", "save_jsonl_file">>)
  /\ IF "json_file" \notin ModelAttributes
     THEN /\ Raise(t, "celery_task_except", "no attribute json_file")
          /\ UNCHANGED <<db, mem, inv>>
     ELSE /\ Save(t, [mem[t] EXCEPT !.status = "queued"])
          /\ End(t, "returned")
  /\ UNCHANGED <<gcs, jobs, input, runs, submits>>
  /\ UNCHANGED <<hist, conv, res>>

\* tasks.py lines 29-37: save_jsonl_file, task.json_file.name = jsonl_path (an
\* AttributeError when the instance has no json_file), persist 'queued',
\* process_kc_api.delay(task_id, jsonl_data), return
CeleryTaskQueue(t) ==
  /\ pc[t] = "celery_queue"
  /\ IF "json_file" \notin ModelAttributes
     THEN /\ Raise(t, "celery_task_except", "no attribute json_file")
          /\ Did(t, <<"save_jsonl_file">>)
          /\ UNCHANGED <<db, mem, inv>>
     ELSE /\ Save(t, [mem[t] EXCEPT !.status = "queued"])
          /\ Did(t, <<"save_jsonl_file", "write:queued", "delay:process_kc_api">>)
          /\ End(t, "returned")
  /\ UNCHANGED <<gcs, jobs, input, runs, submits>>
  /\ UNCHANGED <<hist, conv, res>>

\* tasks.py lines 39-44: the handler reloads the task and persists 'failed'
\* with str(e)
CeleryTaskExcept(t) ==
  /\ pc[t] = "celery_task_except"
  /\ Save(t, [Instance(db[t]) EXCEPT !.status = "failed", !.error_message = loc[t].e])
  /\ Goto(t, "celery_task_notify")
  /\ Did(t, <<"write:failed">>)
  /\ UNCHANGED <<gcs, jobs, input, loc, inv, runs, submits>>
  /\ UNCHANGED <<hist, conv, res>>

\* tasks.py line 46: send_failure_email(task); the task returns
CeleryTaskFailNotify(t) ==
  /\ pc[t] = "celery_task_notify"
  /\ Did(t, <<"notify:failed">>)
  /\ \E m \in MailOutcomes :
       AfterMail(t, m, "idle", IF m # "sent" /\ ~NotifierCatches THEN "raised" ELSE "returned")
  /\ loc' = [loc EXCEPT ![t] = NoLocals]
  /\ UNCHANGED <<db, gcs, jobs, input, mem, runs, submits>>
  /\ UNCHANGED <<hist, conv, res>>

\* a worker takes a process_kc_api(task_id, jsonl_data) message from the queue
CeleryApiDeliver(t) ==
  /\ pc[t] = "idle"
  /\ runs[t] < MaxRuns
  /\ runs' = [runs EXCEPT ![t] = @ + 1]
  /\ pc' = [pc EXCEPT ![t] = "celery_api"]
  /\ inv' = [inv EXCEPT ![t] = [NoInv EXCEPT !.via = "celery_api", !.entry = db[t].status]]
  /\ log' = [log EXCEPT ![t] = <<>>]
  /\ loc' = [loc EXCEPT ![t] = [NoLocals EXCEPT !.jsonl_data = "data"]]
  /\ UNCHANGED <<db, gcs, jobs, input, mem, submits>>
  /\ UNCHANGED <<hist, conv, res>>

\* tasks.py lines 54-60: load the task, persist 'processing'
CeleryApiStart(t) ==
  /\ pc[t] = "celery_api"
  /\ Save(t, [Instance(db[t]) EXCEPT !.status = "processing"])
  /\ Goto(t, "celery_call")
  /\ Did(t, <<"write:processing">>)
  /\ UNCHANGED <<gcs, jobs, input, loc, inv, runs, submits>>
  /\ UNCHANGED <<hist, conv, res>>

\* tasks.py line 63: kc_results = call_kc_api(jsonl_data), which returns or raises
CeleryApiCall(t) ==
  /\ pc[t] = "celery_call"
  /\ \/ Goto(t, "celery_results") /\ UNCHANGED loc
     \/ \E e \in CallKcApiErrors : Raise(t, "celery_except", e)
  /\ Did(t, <<"call_kc_api">>)
  /\ UNCHANGED <<db, gcs, jobs, input, mem, inv, runs, submits>>
  /\ UNCHANGED <<hist, conv, res>>

\* tasks.py lines 66-75: save the results, task.output_csv.name = csv_path (an
\* AttributeError when the instance has no output_csv), persist 'completed',
\* send_completion_email, return
CeleryApiResults(t) ==
  /\ pc[t] = "celery_results"
  /\ IF "output_csv" \notin ModelAttributes
     THEN /\ Raise(t, "celery_except", "no attribute output_csv")
          /\ Did(t, <<"save_results_to_csv">>)
          /\ UNCHANGED <<db, mem, inv, hist>>
     ELSE /\ Save(t, [mem[t] EXCEPT !.status = "completed", !.completed_at = runs[t]])
          /\ Did(t, <<"save_results_to_csv", "write:completed", "notify:completed">>)
          /\ hist' = [hist EXCEPT ![t].completion_mails = @ + 1]
          /\ \E m \in MailOutcomes :
               IF m # "sent" /\ ~NotifierCatches
               THEN /\ AfterMail(t, m, "celery_except", "none")
                    /\ loc' = [loc EXCEPT ![t].e = m]
               ELSE /\ AfterMail(t, m, "idle", "returned")
                    /\ loc' = [loc EXCEPT ![t] = NoLocals]
  /\ UNCHANGED <<gcs, jobs, input, runs, submits, conv, res>>

\* a handler that re-raises at once
CeleryApiExceptReraising(t) ==
  /\ pc[t] = "celery_except"
  /\ Goto(t, "celery_reraise")
  /\ UNCHANGED <<db, gcs, jobs, input, mem, loc, inv, log, runs, submits>>
  /\ UNCHANGED <<hist, conv, res>>

\* tasks.py lines 77-82: the handler reloads the task and persists 'failed'
\* with str(e)
CeleryApiExcept(t) ==
  /\ pc[t] = "celery_except"
  /\ Save(t, [Instance(db[t]) EXCEPT !.status = "failed", !.error_message = loc[t].e])
  /\ Goto(t, "celery_fail_notify")
  /\ Did(t, <<"write:failed">>)
  /\ UNCHANGED <<gcs, jobs, input, loc, inv, runs, submits>>
  /\ UNCHANGED <<hist, conv, res>>

\* tasks.py line 83: send_failure_email(task)
CeleryApiFailNotify(t) ==
  /\ pc[t] = "celery_fail_notify"
  /\ Did(t, <<"notify:failed">>)
  /\ \E m \in MailOutcomes :
       IF m # "sent" /\ ~NotifierCatches
       THEN /\ AfterMail(t, m, "idle", "raised")
            /\ loc' = [loc EXCEPT ![t] = NoLocals]
       ELSE /\ AfterMail(t, m, "celery_reraise", "none")
            /\ UNCHANGED loc
  /\ UNCHANGED <<db, gcs, jobs, input, mem, runs, submits>>
  /\ UNCHANGED <<hist, conv, res>>

\* tasks.py line 84: raise e
CeleryApiReraise(t) ==
  /\ pc[t] = "celery_reraise"
  /\ End(t, "raised")
  /\ UNCHANGED <<db, gcs, jobs, input, mem, log, runs, submits>>
  /\ UNCHANGED <<hist, conv, res>>

(* ------------------------------------------------- job/utils.py: Converter *)

\* the values of format_mapping
Formats == {"jsonl", "json", "csv", "excel"}

JsonFormats == {"json", "jsonl"}

\* what a field of a loaded record holds: a non-empty value; nothing (JSON: the
\* key is missing or holds null or an empty string); NaN (pandas: an empty cell)
Cells(format) == IF format \in JsonFormats THEN {"value", "none"} ELSE {"value", "nan"}

Types(format) == {"Multiple Choice", "Short Answer"} \cup (Cells(format) \ {"value"})

\* the numbers of choices the validators tell apart: none, one, more than one
\* (JSON: the length of question.choices; CSV/Excel: the populated choice_ cells)
ChoiceCounts == {0, 1, 2}

\* what the unpopulated choice_ cells of a CSV/Excel row hold: nothing (NaN) or
\* white space; told apart only in a row without a populated choice
Rest(format) == IF format \in JsonFormats THEN {"none"} ELSE {"nan", "blank"}

RecordFields(format) ==
  {r \in [id : Cells(format), type : Types(format), stem : Cells(format),
          choices : ChoiceCounts, rest : Rest(format)] :
     r.choices > 0 => r.rest \in {"none", "nan"}}

\* a file whose i-th record has the fields f[i]; src is the position of the
\* record in the file
FileOf(f) ==
  [i \in DOMAIN f |->
     [src |-> i, id |-> f[i].id, type |-> f[i].type, stem |-> f[i].stem,
      choices |-> f[i].choices, rest |-> f[i].rest]]

NoFault == [record |-> 0, field |-> "none"]

First(S) == CHOOSE i \in S : \A j \in S : i <= j

\* the first record a validator refuses, with the field it names; faults[i] is
\* what the validator's checks say of record i
FirstFault(faults) ==
  LET bad == {i \in DOMAIN faults : faults[i] # "none"}
  IN IF bad = {} THEN NoFault
     ELSE [record |-> First(bad), field |-> faults[First(bad)]]

\* `not record.get(f) or str(record.get(f)).strip() == ''`: NaN is truthy and
\* prints as 'nan'; an object without stem and choices is an empty dict
CommonFault(r) ==
  IF r.id = "none" THEN "id"
  ELSE IF r.type = "none" THEN "type"
  ELSE IF r.stem = "none" /\ r.choices = 0 THEN "question"
  ELSE "none"

validate_common_requirements(data) == FirstFault([i \in DOMAIN data |-> CommonFault(data[i])])

\* only the first record is looked at
validate_required_columns(data) ==
  IF data = <<>> THEN [record |-> 0, field |-> "file"]
  ELSE IF data[1].id = "none" \/ data[1].type = "none" \/ (data[1].stem = "none" /\ data[1].choices = 0)
       THEN [record |-> 1, field |-> "columns"]
       ELSE NoFault

JsonFault(r) ==
  IF r.stem = "none" THEN "stem"
  ELSE IF r.type = "Multiple Choice" /\ r.choices = 0 THEN "choices"
  ELSE IF r.type = "Multiple Choice" /\ r.choices = 1 THEN "choices"
  ELSE "none"

validate_json_structure(data) == FirstFault([i \in DOMAIN data |-> JsonFault(data[i])])

\* has_choices = any(record.get(col) and str(record.get(col)).strip()): true of
\* a populated cell, and of an empty one (NaN is truthy and prints as 'nan')
CsvFault(r) ==
  IF r.type = "Multiple Choice" /\ r.choices = 0 /\ r.rest = "blank" THEN "choices" ELSE "none"

validate_csv_excel_structure(data) == FirstFault([i \in DOMAIN data |-> CsvFault(data[i])])

\* a transformation that puts each new record in front of the list
RECURSIVE transform_prepending(_)
transform_prepending(data) ==
  IF data = <<>> THEN <<>>
  ELSE LET record == data[Len(data)]
           new_record == [record EXCEPT !.choices = IF record.type = "Multiple Choice" THEN @ ELSE 0]
       IN <<new_record>> \o transform_prepending(SubSeq(data, 1, Len(data) - 1))

\* for record in data: build new_record (choices only for Multiple Choice rows,
\* from the populated choice_ cells), transformed_data.append(new_record)
RECURSIVE transform_csv_excel_to_json_structure(_)
transform_csv_excel_to_json_structure(data) ==
  IF data = <<>> THEN <<>>
  ELSE LET record == data[Len(data)]
           new_record == [record EXCEPT !.choices = IF record.type = "Multiple Choice" THEN @ ELSE 0]
       IN Append(transform_csv_excel_to_json_structure(SubSeq(data, 1, Len(data) - 1)), new_record)

\* jsonl: data.append(json.loads(line)) line by line; json: the list itself;
\* csv, excel: df.to_dict('records'), one dict per row in row order
RECURSIVE LoadRecords(_)
LoadRecords(file) ==
  IF file = <<>> THEN <<>>
  ELSE Append(LoadRecords(SubSeq(file, 1, Len(file) - 1)), file[Len(file)])

Rejected(fault) == [ok |-> FALSE, data |-> <<>>, error |-> fault]

Returned(data) == [ok |-> TRUE, data |-> data, error |-> NoFault]

\* the body of convert_file_to_jsonl_data for a file that exists and has a
\* supported extension
convert_file_to_jsonl_data(format, file) ==
  IF format \notin JsonFormats /\ file = <<>>
  THEN Rejected([record |-> 0, field |-> "file"])
  ELSE LET data == LoadRecords(file)
       IN IF validate_common_requirements(data) # NoFault
          THEN Rejected(validate_common_requirements(data))
          ELSE IF validate_required_columns(data) # NoFault
          THEN Rejected(validate_required_columns(data))
          ELSE IF format \in JsonFormats
          THEN IF validate_json_structure(data) # NoFault
               THEN Rejected(validate_json_structure(data))
               ELSE Returned(data)
          ELSE IF validate_csv_excel_structure(data) # NoFault
               THEN Rejected(validate_csv_excel_structure(data))
               ELSE Returned(transform_csv_excel_to_json_structure(data))

\* for item in data: f.write(json.dumps(item) + '\n')
RECURSIVE save_jsonl_file(_)
save_jsonl_file(data) ==
  IF data = <<>> THEN <<>>
  ELSE Append(save_jsonl_file(SubSeq(data, 1, Len(data) - 1)),
              [json |-> data[Len(data)]])

NoResult == [ok |-> FALSE, data |-> <<>>, error |-> NoFault]

\* an uploaded file of one of the supported formats, of up to MaxLen records
InitConv ==
  /\ InitFor({})
  /\ res = NoRes
  /\ \E fmt \in Formats : \E n \in 0 .. MaxLen : \E f \in [1 .. n -> RecordFields(fmt)] :
       conv = [at |-> "file", format |-> fmt, file |-> FileOf(f), result |-> NoResult,
               lines |-> <<>>]

\* main.py line 57: jsonl_data = convert_file_to_jsonl_data(local_path)
ConvertFile ==
  /\ conv.at = "file"
  /\ conv' = [conv EXCEPT !.at = "converted",
                          !.result = convert_file_to_jsonl_data(conv.format, conv.file)]
  /\ UNCHANGED <<db, gcs, jobs, input, pc, mem, loc, inv, log, runs, submits, hist, res>>

\* main.py line 66: jsonl_path = save_jsonl_file(jsonl_data, task_id)
SaveJsonl ==
  /\ conv.at = "converted"
  /\ conv.result.ok
  /\ conv' = [conv EXCEPT !.at = "saved", !.lines = save_jsonl_file(conv.result.data)]
  /\ UNCHANGED <<db, gcs, jobs, input, pc, mem, loc, inv, log, runs, submits, hist, res>>

(* ------------------------------------- job/utils.py: save_results_to_csv *)

\* the rows a result table may hold
Rows == {"r1", "r2"}

\* what create_new_kc hands to save_results_to_csv: a pandas DataFrame (the
\* names concept_df, kcluster_df), or a mapping with the rows under 'data'
TableKinds == {"frame", "mapping"}

Tables ==
  {[kind |-> k, rows |-> r] :
     k \in TableKinds, r \in UNION {[1 .. n -> Rows] : n \in 0 .. MaxLen}}

\* kc_results.get('data', []): of a mapping, the rows under 'data'; of a
\* DataFrame, the column named 'data', of which the tables have none: the default
GetData(table) == IF table.kind = "mapping" THEN table.rows ELSE <<>>

\* pd.DataFrame(rows).to_csv(csv_path, index=False): one line per row
RECURSIVE to_csv(_)
to_csv(rows) ==
  IF rows = <<>> THEN <<>>
  ELSE Append(to_csv(SubSeq(rows, 1, Len(rows) - 1)), [csv |-> rows[Len(rows)]])

\* the content of /tmp/kc_results_<task_id>.csv after the call
save_results_to_csv(kc_results) == to_csv(GetData(kc_results))

NoFile == <<"no file">>

\* the two tables create_new_kc returned
InitRes ==
  /\ InitFor({})
  /\ conv = NoConv
  /\ \E c \in Tables : \E k \in Tables :
       res = [at |-> "tables", concept |-> c, cluster |-> k, path |-> NoFile,
              concept_blob |-> NoFile, kc_blob |-> NoFile]

\* main.py line 140: concept_path = save_results_to_csv(concept_df, task_id)
SaveConcept ==
  /\ res.at = "tables"
  /\ res' = [res EXCEPT !.at = "concept_saved", !.path = save_results_to_csv(res.concept)]
  /\ UNCHANGED <<db, gcs, jobs, input, pc, mem, loc, inv, log, runs, submits, hist, conv>>

\* main.py line 141: upload_to_gcs(concept_path, task.gcs_output_concept_blob)
UploadConcept ==
  /\ res.at = "concept_saved"
  /\ res' = [res EXCEPT !.at = "concept_uploaded", !.concept_blob = res.path]
  /\ UNCHANGED <<db, gcs, jobs, input, pc, mem, loc, inv, log, runs, submits, hist, conv>>

\* main.py line 142: pmi_path = save_results_to_csv(kcluster_df, task_id), the
\* same local path as concept_path
SaveKc ==
  /\ res.at = "concept_uploaded"
  /\ res' = [res EXCEPT !.at = "kc_saved", !.path = save_results_to_csv(res.cluster)]
  /\ UNCHANGED <<db, gcs, jobs, input, pc, mem, loc, inv, log, runs, submits, hist, conv>>

\* main.py line 143: upload_to_gcs(pmi_path, task.gcs_output_kc_blob)
UploadKc ==
  /\ res.at = "kc_saved"
  /\ res' = [res EXCEPT !.at = "done", !.kc_blob = res.path]
  /\ UNCHANGED <<db, gcs, jobs, input, pc, mem, loc, inv, log, runs, submits, hist, conv>>

(* ---------------------------------------------------------- specification *)

\* automatic processing: executions of run(), terminations, the external job
Next ==
  \/ \E t \in Tasks : Trigger(t)
  \/ \E t \in Tasks : RunEnter(t)
  \/ \E t \in Tasks : Lookup(t)
  \/ \E t \in Tasks : PrepConvert(t)
  \/ \E t \in Tasks : PrepSaveBlob(t)
  \/ \E t \in Tasks : PrepUpload(t)
  \/ \E t \in Tasks : PrepQueued(t)
  \/ \E t \in Tasks : PrepExcept(t)
  \/ \E t \in Tasks : PrepNotify(t)
  \/ \E t \in Tasks : ApiStart(t)
  \/ \E t \in Tasks : ApiLaunch(t)
  \/ \E t \in Tasks : ApiSaveHandle(t)
  \/ \E t \in Tasks : ApiWait(t)
  \/ \E t \in Tasks : ApiCluster(t)
  \/ \E t \in Tasks : ApiUploadConcept(t)
  \/ \E t \in Tasks : ApiUploadKc(t)
  \/ \E t \in Tasks : ApiComplete(t)
  \/ \E t \in Tasks : ApiNotify(t)
  \/ \E t \in Tasks : ApiExcept(t)
  \/ \E t \in Tasks : ApiFailNotify(t)
  \/ \E t \in Tasks : Kill(t)
  \/ \E h \in Handles : JobStep(h)

Spec == Init /\ [][Next]_vars

\* automatic processing together with the operator's views
NextOps ==
  \/ Next
  \/ \E t \in Tasks : mark_failed(t)
  \/ \E t \in Tasks : reprocess_task(t)

SpecOps == Init /\ [][NextOps]_vars

\* automatic processing, the teacher asking for the results, the operator
\* marking tasks failed
NextDownload ==
  \/ Next
  \/ \E t \in Tasks : mark_failed(t)
  \/ \E t \in Tasks : \E result_type \in ResultTypes : download_results(t, result_type)

SpecDownload == Init /\ [][NextDownload]_vars

\* one upload: upload_file, the execution it starts, and what the operator's
\* views start afterwards
NextUpload ==
  \/ \E t \in Tasks : UploadPut(t)
  \/ \E t \in Tasks : UploadSavePointer(t)
  \/ \E t \in Tasks : UploadProcessFile(t)
  \/ \E t \in Tasks : RunEnter(t)
  \/ \E t \in Tasks : Lookup(t)
  \/ \E t \in Tasks : PrepConvert(t)
  \/ \E t \in Tasks : PrepSaveBlob(t)
  \/ \E t \in Tasks : PrepUpload(t)
  \/ \E t \in Tasks : PrepQueued(t)
  \/ \E t \in Tasks : PrepExcept(t)
  \/ \E t \in Tasks : PrepNotify(t)
  \/ \E t \in Tasks : ApiStart(t)
  \/ \E t \in Tasks : ApiLaunch(t)
  \/ \E t \in Tasks : ApiSaveHandle(t)
  \/ \E t \in Tasks : ApiWait(t)
  \/ \E t \in Tasks : ApiCluster(t)
  \/ \E t \in Tasks : ApiUploadConcept(t)
  \/ \E t \in Tasks : ApiUploadKc(t)
  \/ \E t \in Tasks : ApiComplete(t)
  \/ \E t \in Tasks : ApiNotify(t)
  \/ \E t \in Tasks : ApiExcept(t)
  \/ \E t \in Tasks : ApiFailNotify(t)
  \/ \E t \in Tasks : Kill(t)
  \/ \E h \in Handles : JobStep(h)
  \/ \E t \in Tasks : mark_failed(t)
  \/ \E t \in Tasks : reprocess_task(t)

SpecUpload == InitUpload /\ [][NextUpload]_vars

\* executions triggered so far, over all tasks
TotalRuns == Cardinality({<<t, k>> \in Tasks \X (1 .. MaxRuns) : k <= runs[t]})

\* two tasks uploaded, neither run yet
InitPair ==
  /\ \E a, b \in TaskIds : a < b /\ InitFor({a, b})
  /\ conv = NoConv
  /\ res = NoRes

\* process_file for one of the two tasks; two executions in all
TriggerPair(t) == TotalRuns < 2 /\ Trigger(t)

\* the executions of run() for two tasks, interleaved step by step
NextPair ==
  \/ \E t \in Tasks : TriggerPair(t)
  \/ \E t \in Tasks : RunEnter(t)
  \/ \E t \in Tasks : Lookup(t)
  \/ \E t \in Tasks : PrepConvert(t)
  \/ \E t \in Tasks : PrepSaveBlob(t)
  \/ \E t \in Tasks : PrepUpload(t)
  \/ \E t \in Tasks : PrepQueued(t)
  \/ \E t \in Tasks : PrepExcept(t)
  \/ \E t \in Tasks : PrepNotify(t)
  \/ \E t \in Tasks : ApiStart(t)
  \/ \E t \in Tasks : ApiLaunch(t)
  \/ \E t \in Tasks : ApiSaveHandle(t)
  \/ \E t \in Tasks : ApiWait(t)
  \/ \E t \in Tasks : ApiCluster(t)
  \/ \E t \in Tasks : ApiUploadConcept(t)
  \/ \E t \in Tasks : ApiUploadKc(t)
  \/ \E t \in Tasks : ApiComplete(t)
  \/ \E t \in Tasks : ApiNotify(t)
  \/ \E t \in Tasks : ApiExcept(t)
  \/ \E t \in Tasks : ApiFailNotify(t)
  \/ \E t \in Tasks : Kill(t)
  \/ \E h \in Handles : JobStep(h)

SpecPair == InitPair /\ [][NextPair]_vars

\* the Celery call site: deliveries of process_kc_task and of process_kc_api,
\* terminations of the worker
NextCelery ==
  \/ \E t \in Tasks : CeleryTaskDeliver(t)
  \/ \E t \in Tasks : CeleryTaskStart(t)
  \/ \E t \in Tasks : CeleryTaskConvert(t)
  \/ \E t \in Tasks : CeleryTaskQueue(t)
  \/ \E t \in Tasks : CeleryTaskExcept(t)
  \/ \E t \in Tasks : CeleryTaskFailNotify(t)
  \/ \E t \in Tasks : CeleryApiDeliver(t)
  \/ \E t \in Tasks : CeleryApiStart(t)
  \/ \E t \in Tasks : CeleryApiCall(t)
  \/ \E t \in Tasks : CeleryApiResults(t)
  \/ \E t \in Tasks : CeleryApiExcept(t)
  \/ \E t \in Tasks : CeleryApiFailNotify(t)
  \/ \E t \in Tasks : CeleryApiReraise(t)
  \/ \E t \in Tasks : Kill(t)

SpecCelery == Init /\ [][NextCelery]_vars

\* the Converter applied to one file, then save_jsonl_file to what it returned
NextConv ==
  \/ ConvertFile
  \/ SaveJsonl

SpecConv == InitConv /\ [][NextConv]_vars

\* the result collection of process_kc_api applied to two tables
NextRes ==
  \/ SaveConcept
  \/ UploadConcept
  \/ SaveKc
  \/ UploadKc

SpecRes == InitRes /\ [][NextRes]_vars

(* ----------------------------------------------------------------- claims *)

Has(events, e) == \E i \in DOMAIN events : events[i] = e

Count(events, e) == Cardinality({i \in DOMAIN events : events[i] = e})

IsPrefix(a, b) == Len(a) <= Len(b) /\ SubSeq(b, 1, Len(a)) = a

\* C1: over all executions of run() for one task id, killed and re-triggered
\* ones included, launch_batch_job is called at most once.
C1_SubmitAtMostOnce == \A t \in Tasks : submits[t] <= 1

\* C2: whenever an execution is blocked in wait_for_job_completion, the
\* persisted status of its task is 'processing'.
C2_WaitingIsProcessing ==
  \A t \in Tasks : pc[t] = "wait" => db[t].status = "processing"

\* C3: run() entered on a task whose persisted status is 'completed' or 'failed'
\* changes no field of the row and has no effect: nothing is downloaded,
\* converted, uploaded, submitted, looked up or notified, and it returns.
C3_TerminalReentryIsNoOp ==
  [][\A t \in Tasks :
       (pc[t] = "start" /\ db[t].status \in Terminal) =>
          /\ db' = db
          /\ gcs' = gcs
          /\ submits' = submits
          /\ log'[t] = <<>>
          /\ pc'[t] \in {"start", "idle"}]_vars

C3_Witness ==
  \E t \in Tasks : /\ inv[t].entry = "completed"
                   /\ inv[t].end = "returned"
                   /\ runs[t] >= 2

C5_ResumeNeverSubmits ==
  \A t \in Tasks :
     (inv[t].entry = "processing" /\ inv[t].found \notin {"unset", "none"}) =>
        /\ ~Has(log[t], "submit")
        /\ pc[t] \notin {"launch", "save_handle"}

C5_Witness ==
  \E t \in Tasks : /\ inv[t].entry = "processing"
                   /\ inv[t].found \in {"pending", "running"}
                   /\ Has(log[t], "write:completed")

\* the effects of result collection, of the notifier and of the failure handler
CollectionEvents ==
  {"cluster", "upload:concepts", "upload:kclusters", "write:completed",
   "notify:completed", "write:failed", "notify:failed"}

\* C6: a 'processing' task whose job is resolved and reports succeeded is taken
\* by one execution, without a submission, straight to result collection, and
\* (nothing failing) to 'completed' with both result pointers and completed_at set.
C6_ResumeSucceededCollects ==
  \A t \in Tasks :
     ( /\ inv[t].entry = "processing"
       /\ inv[t].found = "succeeded"
       /\ loc[t].e = NoError
       /\ ~Has(log[t], "write:failed") ) =>
        /\ ~Has(log[t], "submit")
        /\ \A i \in DOMAIN log[t] : log[t][i] \in CollectionEvents \cup {"lookup", "wait"}
        /\ inv[t].end = "returned" =>
              /\ db[t].status = "completed"
              /\ db[t].gcs_output_concept_blob # NoBlob
              /\ db[t].gcs_output_kc_blob # NoBlob
              /\ db[t].completed_at # NullTime

\* C7: run() triggered on a task in 'uploaded', 'converted', 'queued' or
\* 'processing' whose external jobs have all reached a terminal state leaves the
\* task 'completed' or 'failed' once the execution has run to its end, for every
\* task id.
C7_RunEndsTerminal ==
  \A t \in Tasks :
     ( /\ inv[t].entry \in {"uploaded", "converted", "queued", "processing"}
       /\ inv[t].end \in {"returned", "raised"}
       /\ submits[t] > 0
       /\ \A k \in 1 .. NumHandles : jobs[<<t, k>>] \in JobTerminal \cup {"none"} ) =>
        db[t].status \in Terminal

\* C8: an execution entered on a task whose gcs_json_blob is set and whose status
\* is 'processing' neither runs the Converter nor uploads the normalized blob again.
C8_ResumeSkipsConverter ==
  \A t \in Tasks :
     (inv[t].entry = "processing" /\ inv[t].json_blob # NoBlob) =>
        /\ ~Has(log[t], "convert")
        /\ ~Has(log[t], "upload:processed")

\* the order of the automatic states
Rank(status) ==
  CASE status = "uploaded" -> 1
    [] status = "converted" -> 2
    [] status = "queued" -> 3
    [] status = "processing" -> 4
    [] status = "completed" -> 5
    [] status = "failed" -> 5

\* C9: under automatic processing every write of the status moves it forward
\* in uploaded < converted < queued < processing < completed, or to 'failed'.
C9_StatusMovesForward ==
  [][\A t \in Tasks :
       \/ db'[t].status = db[t].status
       \/ db[t].status \notin Terminal /\ db'[t].status = "failed"
       \/ Rank(db'[t].status) > Rank(db[t].status)]_vars

\* C10: in an execution whose preparation phase runs and whose Converter rejects
\* the input, 'failed' is persisted with the validation error, one failure
\* notification is sent and the execution stops: no submit, no further write.
C10_RejectionStops ==
  \A t \in Tasks :
     (input[t] = "invalid" /\ Has(log[t], "convert")) =>
        LET i == CHOOSE j \in DOMAIN log[t] : log[t][j] = "convert"
            after == SubSeq(log[t], i + 1, Len(log[t]))
        IN /\ IsPrefix(after, <<"write:failed", "notify:failed">>)
           /\ Has(after, "write:failed") => db[t].error_message = "validation error"
           /\ Has(after, "notify:failed") => pc[t] = "idle"
           /\ mem[t].job_handle = NoJob

\* C11: an execution of run() that ends by an exception raised after the task
\* was loaded leaves 'failed' persisted with the exception's message and has
\* attempted a failure notification.
C11_ExceptionsBecomeFailed ==
  \A t \in Tasks :
     inv[t].end = "raised" =>
        /\ db[t].status = "failed"
        /\ db[t].error_message # NoError
        /\ Has(log[t], "notify:failed")

\* C12: while a fresh execution waits for the job it submitted, the Task Store
\* record of the task holds the handle of that job.
C12_HandleStoredBeforeWait ==
  \A t \in Tasks :
     (pc[t] = "wait" /\ ~loc[t].resume) => JobHandleOf(db[t]) = loc[t].job

C14_LookupUsesRecordedJob ==
  \A t \in Tasks :
     /\ (inv[t].entry = "processing" /\ hist[t].launched # {}) => inv[t].end # "raised"
     /\ pc[t] = "lookup" => loc[t].job \in hist[t].launched

\* C15: when a resumed execution has ended by itself and the one job submitted
\* for the task is in a failed state, the task is 'failed', result collection
\* was not run, and a wait that observed the failure left the external reason
\* in error_message.
C15_FailedJobFailsTask ==
  \A t \in Tasks : \A h \in hist[t].launched :
     ( /\ hist[t].launched = {h}
       /\ jobs[h] = "failed"
       /\ inv[t].entry = "processing"
       /\ inv[t].end \in {"returned", "raised"} ) =>
        /\ db[t].status = "failed"
        /\ ~Has(log[t], "cluster")
        /\ Has(log[t], "wait") => db[t].error_message = "job failed"

\* C16: whenever the persisted status is 'completed', both result blobs are in
\* the object store, both result pointers are set and completed_at is set.
C16_CompletedHasResults ==
  \A t \in Tasks :
     db[t].status = "completed" =>
        /\ db[t].gcs_output_concept_blob # NoBlob
        /\ db[t].gcs_output_kc_blob # NoBlob
        /\ db[t].gcs_output_concept_blob \in gcs
        /\ db[t].gcs_output_kc_blob \in gcs
        /\ db[t].completed_at # NullTime

\* 'completed' has just been persisted by an execution that uploaded both tables
C16_Witness ==
  \E t \in Tasks :
     /\ db[t].status = "completed"
     /\ pc[t] = "notify"
     /\ Has(log[t], "upload:concepts") /\ Has(log[t], "upload:kclusters")

\* C17: over all executions of run() for a task, however they were triggered,
\* send_completion_email is called at most once, and only while 'completed' is
\* the persisted status.
C17_CompletionMailOnce ==
  \A t \in Tasks :
     /\ hist[t].completion_mails <= 1
     /\ Has(log[t], "notify:completed") => Has(log[t], "write:completed")

NotifierCalls == {"notify", "prep_notify", "api_notify"}

\* C18: a call of send_completion_email or send_failure_email, whether send_mail
\* delivers or raises, leaves the persisted record as it was and returns to its
\* caller: the execution neither enters a failure handler nor leaves run() by
\* an exception.
C18_NotifierFailureSwallowed ==
  [][\A t \in Tasks :
       (pc[t] \in NotifierCalls /\ log'[t] # log[t]) =>
          /\ db'[t] = db[t]
          /\ pc'[t] \notin {"prep_except", "api_except"}
          /\ inv'[t].end # "raised"
          /\ pc[t] = "notify" => (pc'[t] = "idle" /\ inv'[t].end = "returned")]_vars

\* send_mail raised inside send_completion_email and the task is 'completed'
\* after the execution returned
C18_Witness ==
  \E t \in Tasks :
     /\ inv[t].mail = "smtp error"
     /\ Has(log[t], "notify:completed")
     /\ inv[t].end = "returned"
     /\ db[t].status = "completed"

RecordWritesAndSubmit ==
  {"write:converted", "write:gcs_json_blob", "write:queued", "write:processing",
   "write:job_handle", "write:failed", "write:completed", "submit"}

Notifications == {"notify:failed", "notify:completed"}

\* C19: from a state whose persisted status is 'completed' or 'failed', no step
\* of an execution writes the task record or submits a job, and the only
\* notification sent is the one that directly follows the execution's own
\* terminal write.
C19_TerminalIsFinal ==
  [][\A t \in Tasks :
       (db[t].status \in Terminal /\ IsPrefix(log[t], log'[t])) =>
          \A i \in (Len(log[t]) + 1) .. Len(log'[t]) :
             /\ log'[t][i] \notin RecordWritesAndSubmit
             /\ log'[t][i] \in Notifications =>
                   /\ Len(log[t]) > 0
                   /\ log[t][Len(log[t])] \in {"write:failed", "write:completed"}]_vars

BlobPointers ==
  {"gcs_input_blob", "gcs_json_blob", "gcs_output_concept_blob", "gcs_output_kc_blob"}

\* C20: a blob pointer persisted with a non-empty key keeps that key in every
\* later persisted state of the task.
C20_BlobPointersStable ==
  [][\A t \in Tasks : \A f \in BlobPointers :
       db[t][f] # NoBlob => db'[t][f] = db[t][f]]_vars

\* a later execution has persisted gcs_json_blob again over the key an earlier
\* execution had set, and a failure was persisted after that
C20_Witness ==
  \E t \in Tasks :
     /\ runs[t] >= 2
     /\ inv[t].json_blob # NoBlob
     /\ Has(log[t], "write:gcs_json_blob")
     /\ Has(log[t], "write:failed")

\* C21: a step that changes the persisted error_message leaves the status
\* 'failed', a step that changes the persisted completed_at leaves the status
\* 'completed'; no step of an execution or of the operator views changes
\* either field otherwise.
C21_MessageAndTimestampWrites ==
  [][\A t \in Tasks :
       /\ db'[t].error_message # db[t].error_message => db'[t].status = "failed"
       /\ db'[t].completed_at # db[t].completed_at => db'[t].status = "completed"]_vars

\* a task that failed with a message was reprocessed and then completed
C21_Witness ==
  \E t \in Tasks :
     /\ db[t].error_message # NoError
     /\ db[t].completed_at # NullTime
     /\ db[t].status = "completed"

\* a record without a type, or a Multiple Choice record with fewer than two choices
Defective(r) ==
  \/ r.type \notin {"Multiple Choice", "Short Answer"}
  \/ r.type = "Multiple Choice" /\ r.choices < 2

\* C22: for every format, a file holding a record without 'type' or a Multiple
\* Choice record with fewer than two choices is rejected with an error naming a
\* record and a field; every record returned has id, type and stem, and every
\* returned Multiple Choice record has at least two choices.
C22_ConverterRejects ==
  conv.at \in {"converted", "saved"} =>
     /\ (\E i \in DOMAIN conv.file : Defective(conv.file[i])) =>
           /\ ~conv.result.ok
           /\ conv.result.error.record \in DOMAIN conv.file
           /\ conv.result.error.field # "none"
     /\ conv.result.ok =>
           \A i \in DOMAIN conv.result.data :
              LET r == conv.result.data[i]
              IN /\ r.id = "value"
                 /\ r.type \in {"Multiple Choice", "Short Answer"}
                 /\ r.stem = "value"
                 /\ r.type = "Multiple Choice" => r.choices >= 2

\* C23: the records the Converter returns are the records of the file in file
\* order, none dropped, duplicated or reordered, and save_jsonl_file writes one
\* line per returned record in that order.
C23_OrderPreserved ==
  /\ (conv.at \in {"converted", "saved"} /\ conv.result.ok) =>
        /\ Len(conv.result.data) = Len(conv.file)
        /\ \A i \in DOMAIN conv.result.data : conv.result.data[i].src = i
  /\ conv.at = "saved" =>
        /\ Len(conv.lines) = Len(conv.file)
        /\ \A i \in DOMAIN conv.lines : conv.lines[i].json.src = i

\* a CSV file of at least two rows was converted, transformed and saved
C23_Witness ==
  /\ conv.at = "saved"
  /\ conv.format = "csv"
  /\ Len(conv.file) >= 2
  /\ Len(conv.lines) >= 2

\* C24: a step of mark_failed (the record changes while no execution moves)
\* changes the status to 'failed' and nothing else: the blob pointers,
\* error_message, completed_at and the job handle stay, and no batch job
\* changes state.
C24_MarkFailedFrame ==
  [][\A t \in Tasks :
       (db'[t] # db[t] /\ pc'[t] = pc[t] /\ log'[t] = log[t]) =>
          /\ db'[t] = [db[t] EXCEPT !.status = "failed"]
          /\ JobHandleOf(db'[t]) = JobHandleOf(db[t])
          /\ mem'[t].job_handle = mem[t].job_handle
          /\ jobs' = jobs
          /\ gcs' = gcs]_vars

\* the operator marked a task failed while its execution waits for a job that
\* is still active
C24_Witness ==
  \E t \in Tasks :
     /\ pc[t] = "wait"
     /\ db[t].status = "failed"
     /\ db[t].gcs_json_blob # NoBlob
     /\ jobs[loc[t].job] \in {"pending", "running"}

\* C25: whenever the persisted gcs_json_blob of a task is set, the object store
\* holds a blob under that key.
C25_PointerAfterUpload ==
  \A t \in Tasks :
     db[t].gcs_json_blob # NoBlob => db[t].gcs_json_blob \in gcs

\* C26: under automatic processing, whenever the persisted status is 'queued',
\* 'processing' or 'completed', gcs_input_blob and gcs_json_blob are set and
\* the object store holds the normalized blob.
C26_CheckpointsRecorded ==
  \A t \in Tasks :
     db[t].status \in {"queued", "processing", "completed"} =>
        /\ db[t].gcs_input_blob # NoBlob
        /\ db[t].gcs_json_blob # NoBlob
        /\ db[t].gcs_json_blob \in gcs

\* a resumed execution has prepared the task again and persisted 'queued'
C26_Witness ==
  \E t \in Tasks :
     /\ db[t].status = "queued"
     /\ inv[t].entry = "processing"
     /\ pc[t] = "api"

\* C27: when launch_batch_job has just been called the persisted status is
\* 'processing', and once a job has been submitted for a task its persisted
\* status is 'processing', 'completed' or 'failed'.
C27_SubmitUnderProcessing ==
  \A t \in Tasks :
     /\ pc[t] = "save_handle" => db[t].status = "processing"
     /\ submits[t] > 0 => db[t].status \in {"processing", "completed", "failed"}

\* C28: when the execution that reprocess_task started for a task it found in
\* 'failed' has ended by itself, the persisted status is 'completed' or
\* 'failed'.
C28_ReprocessEndsTerminal ==
  \A t \in Tasks :
     (inv[t].via = "reprocess_failed" /\ inv[t].end \in {"returned", "raised"}) =>
        db[t].status \in Terminal

\* C29: after result collection the blob under gcs_output_concept_blob holds
\* the CSV rows of the concept table and the blob under gcs_output_kc_blob the
\* CSV rows of the cluster table.
C29_BlobsHoldOwnTable ==
  res.at = "done" =>
     /\ res.concept_blob = to_csv(res.concept.rows)
     /\ res.kc_blob = to_csv(res.cluster.rows)

\* C30: in the Celery call site, when process_kc_api is about to re-raise or
\* has re-raised, 'failed' is persisted, with str(e) as the error message, and
\* the failure notification has been attempted; the persisted status is never
\* 'processing' at that point.
C30_CeleryFailsBeforeReraise ==
  \A t \in Tasks :
     (inv[t].via = "celery_api" /\ (pc[t] = "celery_reraise" \/ inv[t].end = "raised")) =>
        /\ db[t].status = "failed"
        /\ db[t].status # "processing"
        /\ pc[t] = "celery_reraise" => db[t].error_message = loc[t].e
        /\ Has(log[t], "notify:failed")

\* call_kc_api raised after 'processing' was persisted and the exception went
\* back to the scheduler
C30_Witness ==
  \E t \in Tasks :
     /\ inv[t].via = "celery_api"
     /\ inv[t].end = "raised"
     /\ Has(log[t], "write:processing")
     /\ db[t].error_message = "Mock CSV file not found"

\* everything that belongs to task t: its row, its uploaded file, its execution,
\* the blobs under its keys, the jobs under its handles
OwnState(t) ==
  <<db[t], input[t], pc[t], mem[t], loc[t], inv[t], log[t], runs[t], submits[t], hist[t],
    {k \in gcs : k[2] = t}, [n \in 1 .. NumHandles |-> jobs[<<t, n>>]]>>

\* C31: with two tasks whose executions of run() interleave, every step
\* belongs to one task t: it leaves the row, the blobs, the jobs and the
\* execution of the other task as they were, every blob and every job written is
\* keyed by the id of a task, and the local files written for t are not files
\* written for the other task.
C31_NoInterference ==
  [][\E t \in Tasks :
       /\ \A u \in Tasks \ {t} : OwnState(u)' = OwnState(u)
       /\ \A u \in Tasks \ {t} : FilesWritten(t)' \cap FilesWritten(u)' = {}
       /\ \A k \in gcs' : k[2] \in Tasks
       /\ \A h \in Handles : jobs'[h] # "none" => h[1] \in Tasks]_vars

\* both executions are under way at once, and each has written its JSONL
\* file and its result file
C31_Witness ==
  \E t, u \in Tasks :
     /\ t # u
     /\ pc[t] # "idle" /\ pc[u] # "idle"
     /\ FilesWritten(t) = {JsonlPath(t), CsvPath(t)}
     /\ FilesWritten(u) = {JsonlPath(u), CsvPath(u)}
     /\ ConceptKey(t) \in gcs /\ ConceptKey(u) \in gcs

\* C32: within one execution of run() 'failed' and error_message are written
\* at most once and at most one failure notification is sent.
C32_OneFailurePerExecution ==
  \A t \in Tasks :
     /\ Count(log[t], "write:failed") <= 1
     /\ Count(log[t], "notify:failed") <= 1

UploadSteps == {"upload_file", "upload_pointer", "upload_trigger"}

\* C33: upload_file starts an execution only when the input object is in the
\* object store and gcs_input_blob is persisted on the row, and while an
\* execution started by the upload runs the row keeps that pointer; an upload
\* that failed starts none.
C33_TriggerAfterUpload ==
  [][\A t \in Tasks :
       /\ (pc[t] \in UploadSteps /\ pc'[t] = "start") =>
             /\ InputKey(t) \in gcs
             /\ db[t].gcs_input_blob = InputKey(t)
       /\ (pc[t] \in UploadSteps /\ InputKey(t) \notin gcs') => pc'[t] # "start"
       /\ (inv'[t].via = "process_file" /\ pc'[t] \notin UploadSteps \cup {"idle"}) =>
             /\ db'[t].gcs_input_blob = InputKey(t)
             /\ pc'[t] # "start" => mem'[t].gcs_input_blob = InputKey(t)]_vars

\* the execution upload_file started has downloaded the input
C33_Witness ==
  \E t \in Tasks :
     /\ inv[t].via = "process_file"
     /\ runs[t] = 1
     /\ Has(log[t], "convert")
     /\ mem[t].gcs_input_blob = InputKey(t)

\* the status writes among the effects of an execution
StatusWrites(events) ==
  SelectSeq(events, LAMBDA e : e \in {"write:uploaded", "write:converted", "write:queued",
                                      "write:processing", "write:completed", "write:failed"})

C35_LinkOnlyWhenCompleted ==
  [][\A t \in Tasks :
       hist'[t].download # hist[t].download =>
          LET d == hist'[t].download
              pointer == IF d.result_type = "concepts" THEN db[t].gcs_output_concept_blob
                         ELSE db[t].gcs_output_kc_blob
          IN /\ d.response = "link" =>
                   /\ db[t].status = "completed"
                   /\ pointer # NoBlob
                   /\ d.key = pointer
                   /\ d.key \in gcs
             /\ db[t].status # "completed" => d.response = "refused"]_vars

\* a link for the cluster table was issued for a completed task
C35_Witness ==
  \E t \in Tasks :
     /\ db[t].status = "completed"
     /\ hist[t].download = [result_type |-> "kclusters", response |-> "link", key |-> KcKey(t)]

====
